---- MODULE Spec2Model ----
(***************************************************************************)
(* Financial news sentiment pipeline: news retrieval (multi-query fetch,   *)
(* URL deduplication, validation, keyword relevance filter), sentiment     *)
(* scoring with optional vector-store context, SQLite cache upsert, alert  *)
(* threshold and the scheduler loop.                                       *)
(*                                                                         *)
(* Text is modelled as a sequence of one-character strings so that         *)
(* lower(), upper(), strip(), substring search and slicing are computed.   *)
(* Confidences and scores are integers in hundredths (0.7 is 70).          *)
(***************************************************************************)
EXTENDS Integers, Sequences, FiniteSets, TLC

VARIABLES
    pc,             \* position of the running operation
    probe,          \* NewsArticle handed to _is_financially_relevant
    verdict,        \* what _is_financially_relevant returned for probe
    qi,             \* index of the next broad query
    all_articles,   \* raw hits merged so far
    news_articles,  \* list returned by get_indian_financial_news
    apiLog,         \* outcome of every request of the current fetch
    HAS_PINECONE,   \* vectordb.HAS_PINECONE: the client library imported
    api_key,        \* Vectordb.api_key
    vs_index,       \* Vectordb.index is set
    vs_embedding_model, \* Vectordb.embedding_model is set
    pinecone,       \* entries of the remote vector index
    batch,          \* articles handed to analyze_articles
    ai,             \* index of the next article of the batch
    results,        \* results of analyze_articles so far
    context,        \* what the last get_similar_context call returned
    stored,         \* what the last store_article call returned
    model_input,    \* text the classifier was last called with
    sa_log,         \* what analyze_single_article did for every article so far
    news_cache,     \* rows of the news_cache table, oldest first
    db_call,        \* the last cache_analysis call: its argument and return value
    ci,             \* index of the next result to cache
    cached_count,   \* cached_count of run_analysis_cycle
    cache_returns,  \* what cache_analysis returned for every result so far
    ni,             \* index of the next result of the notification loop
    notification_count, \* notification_count of run_analysis_cycle
    alerts,         \* results handed to send_instant_notification in this cycle
    cycle_return,   \* how the last run_analysis_cycle ended
    news_api_key,   \* settings.news_api_key
    report,         \* digest of the last send_daily_report
    main_message    \* the failure message main has printed, if any

filterVars == <<probe, verdict>>

newsVars == <<qi, all_articles, news_articles, apiLog>>

vsVars == <<HAS_PINECONE, api_key, vs_index, vs_embedding_model, pinecone>>

saVars == <<batch, ai, results, context, stored, model_input, sa_log>>

dbVars == <<news_cache, db_call>>

cycleVars == <<ci, cached_count, cache_returns, ni, notification_count, alerts, cycle_return>>

mainVars == <<news_api_key, report, main_message>>

vars == <<pc, filterVars, newsVars, vsVars, saVars, dbVars, cycleVars, mainVars>>

----------------------------------------------------------------------------
(* Bounds *)

MaxWords == 2
MaxHits == 2
MaxBatch == 2

----------------------------------------------------------------------------
(* Python values *)

\* None; no text is equal to it because every element of a text is one character
None == <<"None">>

\* bool(v) of a str-or-None value
Truthy(v) == v # None /\ v # <<>>

\* dict.get(key, default)
Get(d, key, default) == IF key \in DOMAIN d THEN d[key] ELSE default

\* v or ''
OrEmpty(v) == IF Truthy(v) THEN v ELSE <<>>

ToLower ==
    [A |-> "a", B |-> "b", C |-> "c", D |-> "d", E |-> "e", F |-> "f", G |-> "g",
     H |-> "h", I |-> "i", J |-> "j", K |-> "k", L |-> "l", M |-> "m", N |-> "n",
     O |-> "o", P |-> "p", Q |-> "q", R |-> "r", S |-> "s", T |-> "t", U |-> "u",
     V |-> "v", W |-> "w", X |-> "x", Y |-> "y", Z |-> "z"]

ToUpper ==
    [a |-> "A", b |-> "B", c |-> "C", d |-> "D", e |-> "E", f |-> "F", g |-> "G",
     h |-> "H", i |-> "I", j |-> "J", k |-> "K", l |-> "L", m |-> "M", n |-> "N",
     o |-> "O", p |-> "P", q |-> "Q", r |-> "R", s |-> "S", t |-> "T", u |-> "U",
     v |-> "V", w |-> "W", x |-> "X", y |-> "Y", z |-> "Z"]

\* str.lower()
Lower(s) == [i \in 1..Len(s) |-> IF s[i] \in DOMAIN ToLower THEN ToLower[s[i]] ELSE s[i]]

\* str.upper()
Upper(s) == [i \in 1..Len(s) |-> IF s[i] \in DOMAIN ToUpper THEN ToUpper[s[i]] ELSE s[i]]

Whitespace == {" ", "\t", "\n"}

\* str.strip()
Strip(s) ==
    IF \A i \in 1..Len(s) : s[i] \in Whitespace THEN <<>>
    ELSE LET lo == CHOOSE i \in 1..Len(s) :
                       s[i] \notin Whitespace /\ \A j \in 1..(i - 1) : s[j] \in Whitespace
             hi == CHOOSE i \in 1..Len(s) :
                       s[i] \notin Whitespace /\ \A j \in (i + 1)..Len(s) : s[j] \in Whitespace
         IN  SubSeq(s, lo, hi)

\* kw in text
Contains(text, kw) ==
    \E i \in 0..(Len(text) - Len(kw)) : SubSeq(text, i + 1, i + Len(kw)) = kw

\* any(kw in text for kw in kws)
AnyIn(kws, text) == \E k \in 1..Len(kws) : Contains(text, kws[k])

\* " ".join(words)
RECURSIVE Join(_)
Join(words) ==
    IF words = <<>> THEN <<>>
    ELSE IF Len(words) = 1 THEN words[1]
    ELSE words[1] \o <<" ">> \o Join(Tail(words))

\* sequences over S of length at most n
SeqsUpTo(S, n) == UNION {[1..k -> S] : k \in 0..n}

----------------------------------------------------------------------------
(* data_models.NewsArticle *)

\* the clean_text validator of title, description and content
clean_text(v) == IF Truthy(v) THEN Strip(v) ELSE v

\* NewsArticle(...) raises a validation error when a str field is None
NewsArticleRaises(title, url, published_at, source) ==
    title = None \/ url = None \/ published_at = None \/ source = None

NewsArticle(title, description, content, url, published_at, source) ==
    [title |-> clean_text(title), description |-> clean_text(description),
     content |-> clean_text(content), url |-> url,
     published_at |-> published_at, source |-> source]

----------------------------------------------------------------------------
(* agents/news_retrieval.py *)

broad_queries ==
    <<"India finance", "Indian stock market", "SENSEX OR NIFTY", "BSE OR NSE",
      "India economy">>

financial_indicators ==
    << <<"s","t","o","c","k">>, <<"m","a","r","k","e","t">>, <<"s","h","a","r","e","s">>,
       <<"t","r","a","d","i","n","g">>, <<"f","i","n","a","n","c","e">>,
       <<"i","n","v","e","s","t","m","e","n","t">>, <<"e","c","o","n","o","m","y">>,
       <<"r","u","p","e","e">>, <<"b","a","n","k">>, <<"b","s","e">>, <<"n","s","e">>,
       <<"s","e","n","s","e","x">>, <<"n","i","f","t","y">>,
       <<"e","a","r","n","i","n","g","s">>, <<"p","r","o","f","i","t">>,
       <<"r","e","v","e","n","u","e">>, <<"i","p","o">>, <<"d","i","v","i","d","e","n","d">> >>

indian_indicators ==
    << <<"i","n","d","i","a">>, <<"i","n","d","i","a","n">>, <<"m","u","m","b","a","i">>,
       <<"d","e","l","h","i">>, <<"b","a","n","g","a","l","o","r","e">>, <<"r","b","i">>,
       <<"r","e","s","e","r","v","e"," ","b","a","n","k">>, <<"t","a","t","a">>,
       <<"r","e","l","i","a","n","c","e">>, <<"i","n","f","o","s","y","s">>,
       <<"h","d","f","c">>, <<"a","d","a","n","i">>, <<"i","c","i","c","i">>,
       <<"w","i","p","r","o">>, <<"b","h","a","r","t","i">> >>

strong_indian_market_keywords ==
    << <<"s","e","n","s","e","x">>, <<"n","i","f","t","y">>, <<"b","s","e">>, <<"n","s","e">>,
       <<"i","n","d","i","a","n"," ","s","t","o","c","k"," ","m","a","r","k","e","t">> >>

\* f"{article.title} {article.description or ''}"
TitleAndDescription(article) ==
    article.title \o <<" ">> \o OrEmpty(article.description)

has_financial(text) == AnyIn(financial_indicators, text)

has_indian_context(text) == AnyIn(indian_indicators, text)

strong_indian_market(text) ==
    \E k \in 1..Len(strong_indian_market_keywords) :
        Contains(text, Lower(strong_indian_market_keywords[k]))

\* variant: the strong market keywords do not count
_is_financially_relevant_BothOnly(article) ==
    LET text == Lower(TitleAndDescription(article))
    IN  has_financial(text) /\ has_indian_context(text)

\* variant: the Indian context is not required
_is_financially_relevant_AnyFinancial(article) ==
    LET text == Lower(TitleAndDescription(article))
    IN  has_financial(text) \/ strong_indian_market(text)

_is_financially_relevant(article) ==
    LET text == Lower(TitleAndDescription(article))
    IN  (has_financial(text) /\ has_indian_context(text)) \/ strong_indian_market(text)

\* all(article.get(field) for field in ['title', 'url'])
_is_valid_article(hit) ==
    Truthy(Get(hit, "title", None)) /\ Truthy(Get(hit, "url", None))

\* variant: no hit is dropped as a duplicate
UniqueByUrl_KeepAll(hits, seen_urls) == hits

\* the duplicate-removal loop: first hit of every url value, in order
RECURSIVE UniqueByUrl(_, _)
UniqueByUrl(hits, seen_urls) ==
    IF hits = <<>> THEN <<>>
    ELSE LET url_str == Get(hits[1], "url", <<>>)
         IN  IF url_str \notin seen_urls
             THEN <<hits[1]>> \o UniqueByUrl(Tail(hits), seen_urls \cup {url_str})
             ELSE UniqueByUrl(Tail(hits), seen_urls)

\* a raw hit is a JSON object: a record whose fields are texts or None; its nested
\* source object is flattened into the fields source (Dict or None) and source_name
Dict == <<"{}">>

\* article.get('source', {}).get('name', '') raises when source is None
SourceRaises(hit) == Get(hit, "source", Dict) = None

SourceName(hit) == Get(hit, "source_name", <<>>)

\* the NewsArticle built from one raw hit; evaluated only when nothing raises
ArticleOfHit(hit) ==
    NewsArticle(Get(hit, "title", <<>>), Get(hit, "description", <<>>),
                Get(hit, "content", <<>>), Get(hit, "url", <<>>),
                Get(hit, "publishedAt", <<>>), SourceName(hit))

HitRaises(hit) ==
    \/ SourceRaises(hit)
    \/ NewsArticleRaises(Get(hit, "title", <<>>), Get(hit, "url", <<>>),
                         Get(hit, "publishedAt", <<>>), SourceName(hit))

\* the conversion loop: valid hits that build a NewsArticle and are relevant
RECURSIVE RelevantArticles(_)
RelevantArticles(hits) ==
    IF hits = <<>> THEN <<>>
    ELSE LET hit == hits[1]
             rest == RelevantArticles(Tail(hits))
         IN  IF _is_valid_article(hit) /\ ~HitRaises(hit)
                /\ _is_financially_relevant(ArticleOfHit(hit))
             THEN <<ArticleOfHit(hit)>> \o rest
             ELSE rest

----------------------------------------------------------------------------
(* settings.py *)

\* HIGH_CONFIDENCE_THRESHOLD, default 0.7
high_confidence_threshold == 70

\* SIMILARITY_THRESHOLD, default 0.7
similarity_threshold == 70

----------------------------------------------------------------------------
(* helpers.py *)

Ellipsis == <<".",".",".">>

truncate_text(text, max_length) ==
    IF Len(text) <= max_length THEN text
    ELSE SubSeq(text, 1, max_length - 3) \o Ellipsis

----------------------------------------------------------------------------
(* database/vectordb.py *)

\* what setup_pinecone leaves in index and embedding_model; setup_raises: a call
\* of the try block raised
setup_pinecone(has_pinecone, key, setup_raises) ==
    IF ~has_pinecone THEN [index |-> FALSE, embedding_model |-> FALSE]
    ELSE IF key = <<>> THEN [index |-> FALSE, embedding_model |-> FALSE]
    ELSE IF setup_raises THEN [index |-> FALSE, embedding_model |-> FALSE]
    ELSE [index |-> TRUE, embedding_model |-> TRUE]

\* variant: the guard lets every call through
VsReady_Always(index, embedding_model) == TRUE

\* the guard of store_article and get_similar_context:
\* not (not self.index or not self.embedding_model)
VsReady(index, embedding_model) == ~(~index \/ ~embedding_model)

top_k == 3

SimilarNewsWas == <<"S","i","m","i","l","a","r"," ","n","e","w","s"," ","w","a","s"," ">>

\* the text of a SentimentLabel value
LabelText(label) ==
    CASE label = "positive" -> <<"p","o","s","i","t","i","v","e">>
      [] label = "negative" -> <<"n","e","g","a","t","i","v","e">>
      [] OTHER -> <<"n","e","u","t","r","a","l">>

\* the contexts list built from the matches of one query
RECURSIVE Contexts(_, _)
Contexts(matches, threshold) ==
    IF matches = <<>> THEN <<>>
    ELSE IF matches[1].score > threshold
         THEN <<SimilarNewsWas \o LabelText(matches[1].metadata.sentiment_label)>>
              \o Contexts(Tail(matches), threshold)
         ELSE Contexts(Tail(matches), threshold)

\* get_similar_context; query is what index.query did: raised, or the matches
get_similar_context(index, embedding_model, query, threshold) ==
    IF ~VsReady(index, embedding_model) THEN <<>>
    ELSE IF query.raised THEN <<>>
    ELSE Join(Contexts(query.matches, threshold))

\* the entry store_article upserts for a result
VectorEntry(result) ==
    [id |-> result.article.url,
     metadata |-> [title |-> result.article.title, url |-> result.article.url,
                   sentiment_score |-> result.sentiment_score,
                   sentiment_label |-> result.sentiment_label,
                   published_at |-> result.article.published_at,
                   source |-> result.article.source,
                   confidence |-> result.confidence]]

\* index.upsert: the entry replaces the one stored under the same id
Upsert(index_entries, entry) ==
    {e \in index_entries : e.id # entry.id} \cup {entry}

\* variant: the upsert is reported but not yet applied when store_article returns
store_article_Deferred(index, embedding_model, index_entries, result, upsert_ok) ==
    [returned |-> VsReady(index, embedding_model) /\ upsert_ok, entries |-> index_entries]

\* store_article: the value returned and the entries of the index afterwards;
\* upsert_ok: encode and upsert did not raise
store_article(index, embedding_model, index_entries, result, upsert_ok) ==
    IF ~VsReady(index, embedding_model)
    THEN [returned |-> FALSE, entries |-> index_entries]
    ELSE IF ~upsert_ok THEN [returned |-> FALSE, entries |-> index_entries]
    ELSE [returned |-> TRUE, entries |-> Upsert(index_entries, VectorEntry(result))]

----------------------------------------------------------------------------
(* database/sql_handler.py *)

\* the column values cache_analysis binds for a result; the id and processed_at
\* columns, which the statement does not set, are left out
CacheRow(result) ==
    [title |-> result.article.title, content |-> result.article.description,
     url |-> result.article.url, published_at |-> result.article.published_at,
     source |-> result.article.source, sentiment |-> result.sentiment_score,
     sentiment_label |-> result.sentiment_label, confidence |-> result.confidence,
     context_used |-> result.context_used]

\* variant: a plain INSERT
InsertOrReplace_Append(table, row) == Append(table, row)

\* INSERT OR REPLACE with title UNIQUE: rows with the title are deleted, the row is added
InsertOrReplace(table, row) ==
    LET Other(r) == r.title # row.title
    IN  Append(SelectSeq(table, Other), row)

\* variant: a failed write still leaves its row in the table
cache_analysis_PartialWrite(table, result, db_ok) ==
    [returned |-> db_ok, table |-> InsertOrReplace(table, CacheRow(result))]

\* cache_analysis: the value returned and the table afterwards; db_ok: connect,
\* execute and commit raised nothing
cache_analysis(table, result, db_ok) ==
    IF db_ok THEN [returned |-> TRUE, table |-> InsertOrReplace(table, CacheRow(result))]
    ELSE [returned |-> FALSE, table |-> table]

----------------------------------------------------------------------------
(* agents/sentiment_analysis.py *)

ContextSep == <<"."," ","C","o","n","t","e","x","t",":"," ">>

PositiveLabels == {<<"P","O","S","I","T","I","V","E">>, <<"P","O","S">>}

NegativeLabels == {<<"N","E","G","A","T","I","V","E">>, <<"N","E","G">>}

\* _standardize_sentiment: <<score, label>> for a classifier output dict
_standardize_sentiment(sentiment_result) ==
    LET label == Upper(Get(sentiment_result, "label", <<>>))
        score == Get(sentiment_result, "score", 0)
    IN  IF label \in PositiveLabels THEN <<score, "positive">>
        ELSE IF label \in NegativeLabels THEN <<0 - score, "negative">>
        ELSE <<0, "neutral">>

\* SentimentResult.validate_score accepts the score
validate_score(v) == -100 <= v /\ v <= 100

SentimentResult(article, sentiment_score, sentiment_label, confidence, context_used) ==
    [article |-> article, sentiment_score |-> sentiment_score,
     sentiment_label |-> sentiment_label, confidence |-> confidence,
     context_used |-> context_used]

\* f"{article.title} {article.description or ''}".strip()
AnalysisText(article) == Strip(TitleAndDescription(article))

\* the text handed to the classifier
EnhancedText(text, ctx) ==
    truncate_text(IF ctx # <<>> THEN text \o ContextSep \o ctx ELSE text, 512)

\* analyze_single_article up to the construction of the result: query is what
\* index.query did, cls what the classifier did (raised, or its output dict)
analyze_single_article(article, index, embedding_model, query, cls) ==
    LET text == AnalysisText(article)
        ctx == get_similar_context(index, embedding_model, query, similarity_threshold)
        std == _standardize_sentiment(cls.out)
    IN  IF text = <<>>
        THEN [raised |-> TRUE, error |-> "no text", context |-> <<>>,
              model_input |-> <<>>]
        ELSE IF cls.raised
        THEN [raised |-> TRUE, error |-> "classifier", context |-> ctx,
              model_input |-> EnhancedText(text, ctx)]
        ELSE IF ~validate_score(std[1])
        THEN [raised |-> TRUE, error |-> "validation", context |-> ctx,
              model_input |-> EnhancedText(text, ctx)]
        ELSE [raised |-> FALSE, error |-> "none", context |-> ctx,
              model_input |-> EnhancedText(text, ctx),
              result |-> SentimentResult(article, std[1], std[2],
                                         Get(cls.out, "score", 0), ctx # <<>>)]

----------------------------------------------------------------------------
(* agents/notification.py and main.py *)

\* the alerts sent once send_instant_notification was called for a result
send_instant_notification(sent, result) == Append(sent, result)

\* variant: a result at the threshold is alerted too
ShouldAlert_AtThreshold(result) ==
    /\ result.sentiment_label \in {"positive", "negative"}
    /\ result.confidence >= high_confidence_threshold

\* the condition of the notification loop of run_analysis_cycle
ShouldAlert(result) ==
    /\ result.sentiment_label \in {"positive", "negative"}
    /\ result.confidence > high_confidence_threshold

\* variant: the exception leaves run_analysis_cycle
run_analysis_cycle_except_Propagates == "exit"

\* where control is after the except clause of run_analysis_cycle: the cycle returned
run_analysis_cycle_except == "cycle_end"

\* the counts of the digest generate_daily_report builds from cached rows
DailyDigest(rows) ==
    [total |-> Len(rows),
     positive |-> Cardinality({k \in 1..Len(rows) : rows[k].sentiment_label = "positive"}),
     negative |-> Cardinality({k \in 1..Len(rows) : rows[k].sentiment_label = "negative"}),
     neutral |-> Cardinality({k \in 1..Len(rows) : rows[k].sentiment_label = "neutral"})]

TestTitle ==
    <<"R","E","L","I","A","N","C","E"," ","s","t","o","c","k"," ","s","u","r","g","e","s",
      " ","1","0","%"," ","o","n"," ","s","t","r","o","n","g"," ",
      "e","a","r","n","i","n","g","s">>

TestDescription ==
    <<"C","o","m","p","a","n","y"," ","r","e","p","o","r","t","s"," ","r","e","c","o","r","d",
      " ","q","u","a","r","t","e","r","l","y"," ","p","r","o","f","i","t","s">>

\* test_article of run_quick_test
test_article ==
    NewsArticle(TestTitle, TestDescription, None,
                <<"h","t","t","p",":","/","/","t","e","s","t",".","c","o","m">>,
                <<"2","0","2","5","-","0","9","-","1","8","T","1","0",":","0","0",":","0","0","Z">>,
                <<"t","e","s","t">>)

----------------------------------------------------------------------------
(* Inputs: the words of probe texts and the raw hits the news API may serve *)

Words ==
    {<<"S","e","n","s","e","x">>, <<"N","I","F","T","Y">>, <<"a","b","s","e","n","t">>,
     <<"s","t","o","c","k">>, <<"P","r","o","f","i","t">>, <<"I","n","d","i","a">>,
     <<"I","n","d","i","a","n">>, <<"m","a","r","k","e","t">>, <<"T","a","t","a">>,
     <<"r","a","i","n">>}

ProbeTitles == {Join(ws) : ws \in SeqsUpTo(Words, MaxWords) \ {<<>>}}

ProbeDescriptions == {None, <<>>, <<"M","u","m","b","a","i">>, <<"N","S","E">>}

ProbeArticles ==
    {NewsArticle(t, d, None, <<"u">>, <<>>, <<>>) : t \in ProbeTitles, d \in ProbeDescriptions}

T_SensexUp == <<"S","e","n","s","e","x"," ","u","p">>
T_TataProfit == <<"T","a","t","a"," ","p","r","o","f","i","t">>
T_TataRises == <<"T","a","t","a"," ","p","r","o","f","i","t"," ","r","i","s","e","s">>
T_StockRally == <<"s","t","o","c","k"," ","r","a","l","l","y">>
T_NiftyFalls == <<"N","i","f","t","y"," ","f","a","l","l","s">>
T_BseOpens == <<"B","S","E"," ","o","p","e","n","s">>
T_DelhiRain == <<"D","e","l","h","i"," ","r","a","i","n">>

HitSensex == [title |-> T_SensexUp, description |-> None, url |-> <<"u","1">>]
HitTata == [title |-> T_TataProfit, description |-> <<"I","n","d","i","a">>, url |-> <<"u","2">>]
HitTataAgain == [title |-> T_TataRises, description |-> <<"I","n","d","i","a">>, url |-> <<"u","2">>]
HitStock == [title |-> T_StockRally, url |-> <<"u","3">>, source |-> Dict, source_name |-> <<"s">>]
HitSensexMirror == [title |-> T_SensexUp, url |-> <<"u","4">>]
HitBlankTitle == [title |-> <<" ">>, description |-> <<"N","i","f","t","y">>, url |-> <<"u","5">>]
HitNoUrl == [title |-> T_NiftyFalls]
HitNullUrl == [title |-> <<"N","S","E">>, url |-> None]
HitNullSource == [title |-> T_BseOpens, url |-> <<"u","6">>, source |-> None]
HitRain == [title |-> T_DelhiRain, url |-> <<"u","7">>, publishedAt |-> <<"t">>]

RawHits ==
    {HitSensex, HitTata, HitTataAgain, HitStock, HitSensexMirror, HitBlankTitle,
     HitNoUrl, HitNullUrl, HitNullSource, HitRain}

\* articles handed to the sentiment agent
ArtSensex == ArticleOfHit(HitSensex)
ArtTata == ArticleOfHit(HitTata)
ArtBlank == NewsArticle(<<" ">>, None, None, <<"u","8">>, <<>>, <<>>)

SaArticles == {ArtSensex, ArtTata, ArtBlank}

\* what the classifier may answer: a dict with a label and a score, either possibly absent
RawLabels == {<<"p","o","s","i","t","i","v","e">>, <<"N","e","g">>, <<"n","e","u","t","r","a","l">>}

RawScores == {0, 90, 120}

OutputDicts(labels, scores) ==
    {[label |-> l, score |-> c] : l \in labels, c \in scores}
        \cup {[label |-> l] : l \in labels} \cup {[score |-> c] : c \in scores}

\* the classifier call raised, or returned one of the dicts
ClassifierOutcomes(labels, scores) ==
    {[raised |-> TRUE, out |-> [score |-> 0]]}
        \cup {[raised |-> FALSE, out |-> o] : o \in OutputDicts(labels, scores)}

\* similarity scores the index may report for a match
SimScores == {70, 80}

Min(a, b) == IF a <= b THEN a ELSE b

\* the matches of one index.query: the top_k entries, best first
MatchLists(entries) ==
    LET n == Min(top_k, Cardinality(entries))
    IN  {m \in [1..n -> {[score |-> c, metadata |-> e.metadata] : c \in SimScores, e \in entries}] :
            /\ \A i, j \in 1..n : i < j => m[i].score >= m[j].score
            /\ \A i, j \in 1..n : i # j => m[i].metadata.url # m[j].metadata.url}

NoQuery == [raised |-> TRUE, matches |-> <<>>]

\* what index.query may do when get_similar_context reaches it
QueryOutcomes(index, embedding_model, entries) ==
    IF ~VsReady(index, embedding_model) THEN {NoQuery}
    ELSE {NoQuery} \cup {[raised |-> FALSE, matches |-> m] : m \in MatchLists(entries)}

\* an entry left in the remote index by an earlier run
PriorEntry == VectorEntry(SentimentResult(ArtTata, -90, "negative", 90, FALSE))

\* a text of n characters
Filler(n) == [i \in 1..n |-> "x"]

\* title lengths around the 512 characters truncate_text keeps
LongTitleLengths == {100, 480, 520}

\* articles with long titles handed to the sentiment agent
LongArticles ==
    {NewsArticle(Filler(n), None, None, <<"u","9">>, <<>>, <<>>) : n \in LongTitleLengths}

\* results handed to cache_analysis
ArtSensexMirror == ArticleOfHit(HitSensexMirror)

CacheResults ==
    {SentimentResult(a, v[1], v[2], v[3], v[4]) :
        a \in {ArtSensex, ArtSensexMirror, ArtTata},
        v \in {<<90, "positive", 90, FALSE>>, <<-90, "negative", 90, TRUE>>,
               <<0, "neutral", 70, FALSE>>}}

\* what the news API serves and the classifier answers in runs of the whole program
MainHits == {HitSensex, HitSensexMirror, HitTata}

\* the queries whose request may fail in runs of the whole program
MainFailing == {1, Len(broad_queries)}

MainOutputs ==
    {[label |-> <<"p","o","s","i","t","i","v","e">>, score |-> 90],
     [label |-> <<"p","o","s","i","t","i","v","e">>, score |-> 70],
     [label |-> <<"N","e","g">>, score |-> 90],
     [label |-> <<"n","e","u","t","r","a","l">>, score |-> 90]}

MainOutcomes ==
    {[raised |-> TRUE, out |-> [score |-> 0]]}
        \cup {[raised |-> FALSE, out |-> o] : o \in MainOutputs}

----------------------------------------------------------------------------
(* Operations *)

\* _is_financially_relevant applied to the probe article
ApplyFilter ==
    /\ pc = "filter"
    /\ verdict' = IF _is_financially_relevant(probe) THEN "kept" ELSE "rejected"
    /\ pc' = "filter_done"
    /\ UNCHANGED <<probe, newsVars, vsVars, saVars, dbVars, cycleVars, mainVars>>

AfterQuery ==
    /\ qi' = qi + 1
    /\ pc' = IF qi = Len(broad_queries) THEN "news_merge" ELSE "news_query"

\* variant: a failed request ends the fetch with an empty list
QueryFailed_Abort ==
    /\ apiLog' = Append(apiLog, [ok |-> FALSE, hits |-> <<>>])
    /\ pc' = "news_return"
    /\ UNCHANGED <<qi, all_articles, news_articles>>

\* session.get, raise_for_status or response.json raised: the except clause of the
\* query loop skips the query
QueryFailed ==
    /\ apiLog' = Append(apiLog, [ok |-> FALSE, hits |-> <<>>])
    /\ AfterQuery
    /\ UNCHANGED <<all_articles, news_articles>>

\* one iteration of the query loop of get_indian_financial_news; pool is what the
\* news API can serve and failing the queries whose request may fail
NewsQuery(pool, failing) ==
    /\ pc = "news_query"
    /\ qi \in 1..Len(broad_queries)
    /\ \/ qi \in failing /\ QueryFailed
       \/ \E hits \in SeqsUpTo(pool, MaxHits - Len(all_articles)) :
             /\ all_articles' = all_articles \o hits
             /\ apiLog' = Append(apiLog, [ok |-> TRUE, hits |-> hits])
             /\ AfterQuery
             /\ UNCHANGED news_articles
    /\ UNCHANGED <<filterVars, vsVars, saVars, dbVars, cycleVars, mainVars>>

\* the rest of get_indian_financial_news: deduplicate, validate, convert, filter, return
NewsFinish ==
    /\ pc = "news_merge"
    /\ news_articles' = RelevantArticles(UniqueByUrl(all_articles, {}))
    /\ pc' = "news_return"
    /\ UNCHANGED <<filterVars, qi, all_articles, apiLog, vsVars, saVars, dbVars, cycleVars, mainVars>>

\* Vectordb.__init__: setup_pinecone; at is where it is called and next where the
\* caller continues
VsConstruct(at, next) ==
    /\ pc = at
    /\ \E setup_raises \in BOOLEAN :
          LET vs == setup_pinecone(HAS_PINECONE, api_key, setup_raises)
          IN  /\ vs_index' = vs.index
              /\ vs_embedding_model' = vs.embedding_model
    /\ pc' = next
    /\ UNCHANGED <<filterVars, newsVars, HAS_PINECONE, api_key, pinecone, saVars, dbVars,
                   cycleVars, mainVars>>

\* analyze_articles is called with a list of articles
SaCall(articles) ==
    /\ pc = "sa_call"
    /\ \E b \in SeqsUpTo(articles, MaxBatch) :
          /\ batch' = b
          /\ pc' = IF b = <<>> THEN "sa_return" ELSE "sa_article"
    /\ ai' = 1
    /\ results' = <<>>
    /\ sa_log' = <<>>
    /\ UNCHANGED <<filterVars, newsVars, vsVars, context, stored, model_input, dbVars,
                   cycleVars, mainVars>>

\* variant: an exception ends the batch
ArticleLoopNext_Abort(i, n, raised) ==
    IF raised \/ i = n THEN "sa_return" ELSE "sa_article"

\* where analyze_articles goes after article i of n: the except clause continues
\* with the next article
ArticleLoopNext(i, n, raised) == IF i = n THEN "sa_return" ELSE "sa_article"

\* one iteration of the loop of analyze_articles: analyze_single_article on
\* batch[ai], a raised exception skips the article
AnalyzeArticle(outcomes) ==
    /\ pc = "sa_article"
    /\ ai \in 1..Len(batch)
    /\ \E query \in QueryOutcomes(vs_index, vs_embedding_model, pinecone),
          cls \in outcomes,
          upsert_ok \in IF VsReady(vs_index, vs_embedding_model) THEN BOOLEAN ELSE {FALSE} :
          LET r == analyze_single_article(batch[ai], vs_index, vs_embedding_model, query, cls)
              st == store_article(vs_index, vs_embedding_model, pinecone, r.result, upsert_ok)
          IN  /\ context' = r.context
              /\ model_input' = r.model_input
              /\ sa_log' = Append(sa_log, r.error)
              /\ pc' = ArticleLoopNext(ai, Len(batch), r.raised)
              /\ IF r.raised
                 THEN /\ UNCHANGED <<results, pinecone>>
                      /\ stored' = "not called"
                 ELSE /\ results' = Append(results, r.result)
                      /\ pinecone' = st.entries
                      /\ stored' = IF st.returned THEN "True" ELSE "False"
    /\ ai' = ai + 1
    /\ UNCHANGED <<filterVars, newsVars, HAS_PINECONE, api_key, vs_index,
                   vs_embedding_model, batch, dbVars, cycleVars, mainVars>>

\* SQLHandler.cache_analysis is called with a result
CacheAnalysis(pool) ==
    /\ pc = "cache"
    /\ \E result \in pool, db_ok \in BOOLEAN :
          LET c == cache_analysis(news_cache, result, db_ok)
          IN  /\ news_cache' = c.table
              /\ db_call' = <<[result |-> result, returned |-> c.returned]>>
    /\ UNCHANGED <<pc, filterVars, newsVars, vsVars, saVars, cycleVars, mainVars>>

\* variant: main does not check the configuration
ConfigurationMissing_Never(key) == FALSE

\* not settings.news_api_key
ConfigurationMissing(key) == ~Truthy(key)

\* main: the configuration check; without the key main prints the message and returns
MainStart ==
    /\ pc = "main"
    /\ IF ConfigurationMissing(news_api_key)
       THEN /\ pc' = "exit"
            /\ main_message' = "Missing NEWS_API_KEY"
       ELSE /\ pc' = "test_init"
            /\ UNCHANGED main_message
    /\ UNCHANGED <<filterVars, newsVars, vsVars, saVars, dbVars, cycleVars, news_api_key,
                   report>>

\* a constructor of FinancialSentimentOrchestrator.__init__ raises (database setup,
\* model loading): run_quick_test returns False, setup_scheduler lets it reach the
\* except clause of main; either way main returns
OrchestratorFails(at) ==
    /\ pc = at
    /\ pc' = "exit"
    /\ main_message' = IF at = "test_init" THEN "System test failed"
                       ELSE "Fatal system error"
    /\ UNCHANGED <<filterVars, newsVars, vsVars, saVars, dbVars, cycleVars, news_api_key,
                   report>>

\* run_quick_test after the orchestrator is built: analyze_single_article(test_article)
QuickTest(outcomes) ==
    /\ pc = "quick_test"
    /\ \E query \in QueryOutcomes(vs_index, vs_embedding_model, pinecone),
          cls \in outcomes,
          upsert_ok \in IF VsReady(vs_index, vs_embedding_model) THEN BOOLEAN ELSE {FALSE} :
          LET r == analyze_single_article(test_article, vs_index, vs_embedding_model,
                                          query, cls)
              st == store_article(vs_index, vs_embedding_model, pinecone, r.result, upsert_ok)
          IN  /\ context' = r.context
              /\ model_input' = r.model_input
              /\ IF r.raised
                 THEN /\ UNCHANGED pinecone
                      /\ stored' = "not called"
                      /\ pc' = "exit"
                      /\ main_message' = "System test failed"
                 ELSE /\ pinecone' = st.entries
                      /\ stored' = IF st.returned THEN "True" ELSE "False"
                      /\ pc' = "sched_init"
                      /\ UNCHANGED main_message
    /\ UNCHANGED <<filterVars, newsVars, HAS_PINECONE, api_key, vs_index,
                   vs_embedding_model, batch, ai, results, sa_log, dbVars, cycleVars,
                   news_api_key, report>>

\* run_analysis_cycle is entered and calls get_indian_financial_news
CycleStart ==
    /\ pc = "cycle_start"
    /\ pc' = "news_query"
    /\ qi' = 1
    /\ all_articles' = <<>>
    /\ news_articles' = <<>>
    /\ apiLog' = <<>>
    /\ UNCHANGED <<filterVars, vsVars, saVars, dbVars, cycleVars, mainVars>>

\* run_analysis_cycle after the fetch: return [] without articles, else analyze_articles;
\* the locals of get_indian_financial_news are gone
CycleAfterFetch ==
    /\ pc = "news_return"
    /\ qi' = 1
    /\ all_articles' = <<>>
    /\ apiLog' = <<>>
    /\ IF news_articles = <<>>
       THEN /\ pc' = "cycle_end"
            /\ cycle_return' = "empty"
            /\ UNCHANGED <<batch, ai, results, sa_log>>
       ELSE /\ pc' = "sa_article"
            /\ batch' = news_articles
            /\ ai' = 1
            /\ results' = <<>>
            /\ sa_log' = <<>>
            /\ UNCHANGED cycle_return
    /\ UNCHANGED <<filterVars, news_articles, vsVars, context, stored, model_input, dbVars,
                   ci, cached_count, cache_returns, ni, notification_count, alerts,
                   mainVars>>

\* run_analysis_cycle after the analysis: return [] without results, else the cache loop;
\* the locals of analyze_articles are gone
CycleAfterAnalyze ==
    /\ pc = "sa_return"
    /\ context' = <<>>
    /\ stored' = "not called"
    /\ model_input' = <<>>
    /\ sa_log' = <<>>
    /\ IF results = <<>>
       THEN /\ pc' = "cycle_end"
            /\ cycle_return' = "empty"
       ELSE /\ pc' = "cycle_cache"
            /\ UNCHANGED cycle_return
    /\ ci' = 1
    /\ cached_count' = 0
    /\ cache_returns' = <<>>
    /\ UNCHANGED <<filterVars, newsVars, vsVars, batch, ai, results, dbVars, ni,
                   notification_count, alerts, mainVars>>

\* one iteration of the cache loop of run_analysis_cycle
CycleCache ==
    /\ pc = "cycle_cache"
    /\ ci \in 1..Len(results)
    /\ \E db_ok \in BOOLEAN :
          LET c == cache_analysis(news_cache, results[ci], db_ok)
          IN  /\ news_cache' = c.table
              /\ db_call' = <<[result |-> results[ci], returned |-> c.returned]>>
              /\ cached_count' = IF c.returned THEN cached_count + 1 ELSE cached_count
              /\ cache_returns' = Append(cache_returns, c.returned)
    /\ ci' = ci + 1
    /\ pc' = IF ci = Len(results) THEN "cycle_notify" ELSE "cycle_cache"
    /\ ni' = 1
    /\ notification_count' = 0
    /\ alerts' = <<>>
    /\ UNCHANGED <<filterVars, newsVars, vsVars, saVars, cycle_return, mainVars>>

\* one iteration of the notification loop of run_analysis_cycle; after the last
\* one the cycle returns its results
CycleNotify ==
    /\ pc = "cycle_notify"
    /\ ni \in 1..Len(results)
    /\ IF ShouldAlert(results[ni])
       THEN /\ alerts' = send_instant_notification(alerts, results[ni])
            /\ notification_count' = notification_count + 1
       ELSE UNCHANGED <<alerts, notification_count>>
    /\ ni' = ni + 1
    /\ IF ni = Len(results)
       THEN /\ pc' = "cycle_end"
            /\ cycle_return' = "results"
       ELSE /\ pc' = "cycle_notify"
            /\ UNCHANGED cycle_return
    /\ UNCHANGED <<filterVars, newsVars, vsVars, saVars, dbVars, ci, cached_count,
                   cache_returns, mainVars>>

\* the calls inside the try block of run_analysis_cycle: fetch, score, cache, notify
CycleSteps == {"news_query", "sa_article", "cycle_cache", "cycle_notify"}

\* a step of the cycle raises: the except clause of run_analysis_cycle logs the
\* error and returns []
CycleRaises ==
    /\ pc \in CycleSteps
    /\ pc' = run_analysis_cycle_except
    /\ cycle_return' = "error"
    /\ UNCHANGED <<filterVars, newsVars, vsVars, saVars, dbVars, ci, cached_count,
                   cache_returns, ni, notification_count, alerts, mainVars>>

\* run_analysis_cycle has returned to main or to the scheduler; its locals are gone
CycleReturn ==
    /\ pc = "cycle_end"
    /\ pc' = "loop"
    /\ qi' = 1
    /\ all_articles' = <<>>
    /\ news_articles' = <<>>
    /\ apiLog' = <<>>
    /\ batch' = <<>>
    /\ ai' = 1
    /\ results' = <<>>
    /\ sa_log' = <<>>
    /\ context' = <<>>
    /\ stored' = "not called"
    /\ model_input' = <<>>
    /\ db_call' = <<>>
    /\ ci' = 1
    /\ cached_count' = 0
    /\ cache_returns' = <<>>
    /\ ni' = 1
    /\ notification_count' = 0
    /\ alerts' = <<>>
    /\ UNCHANGED <<filterVars, vsVars, news_cache, cycle_return, mainVars>>

\* schedule.run_pending finds the analysis job due
RunAnalysisJob ==
    /\ pc = "loop"
    /\ pc' = "cycle_start"
    /\ UNCHANGED <<filterVars, newsVars, vsVars, saVars, dbVars, cycleVars, mainVars>>

\* schedule.run_pending finds the report job due: send_daily_report over the rows
\* of today, which are some of the rows of the table
DailyReport ==
    /\ pc = "loop"
    /\ \E today \in SUBSET (1..Len(news_cache)), email_ok \in BOOLEAN :
          LET IsToday(r) == \E k \in today : news_cache[k] = r
              rows == SelectSeq(news_cache, IsToday)
          IN  report' = IF rows = <<>> THEN <<>>
                        ELSE <<[digest |-> DailyDigest(rows), sent |-> email_ok]>>
    /\ pc' = "report_done"
    /\ UNCHANGED <<filterVars, newsVars, vsVars, saVars, dbVars, cycleVars, news_api_key,
                   main_message>>

\* send_daily_report has returned to the scheduler
ReportReturn ==
    /\ pc = "report_done"
    /\ pc' = "loop"
    /\ report' = <<>>
    /\ UNCHANGED <<filterVars, newsVars, vsVars, saVars, dbVars, cycleVars, news_api_key,
                   main_message>>

----------------------------------------------------------------------------
(* Specifications *)

DbIdle ==
    /\ news_cache = <<>>
    /\ db_call = <<>>

CycleIdle ==
    /\ ci = 1
    /\ cached_count = 0
    /\ cache_returns = <<>>
    /\ ni = 1
    /\ notification_count = 0
    /\ alerts = <<>>
    /\ cycle_return = "none"

MainIdle ==
    /\ news_api_key = <<>>
    /\ report = <<>>
    /\ main_message = "none"

NewsIdle ==
    /\ qi = 1
    /\ all_articles = <<>>
    /\ news_articles = <<>>
    /\ apiLog = <<>>

FilterIdle ==
    /\ probe = NewsArticle(<<>>, None, None, <<>>, <<>>, <<>>)
    /\ verdict = "pending"

VsIdle ==
    /\ HAS_PINECONE = FALSE
    /\ api_key = <<>>
    /\ vs_index = FALSE
    /\ vs_embedding_model = FALSE
    /\ pinecone = {}

SaIdle ==
    /\ batch = <<>>
    /\ ai = 1
    /\ results = <<>>
    /\ context = <<>>
    /\ stored = "not called"
    /\ model_input = <<>>
    /\ sa_log = <<>>

\* _is_financially_relevant over bounded article texts
InitFilter ==
    /\ pc = "filter"
    /\ probe \in ProbeArticles
    /\ verdict = "pending"
    /\ NewsIdle
    /\ VsIdle
    /\ SaIdle
    /\ DbIdle
    /\ CycleIdle
    /\ MainIdle

NextFilter == ApplyFilter

SpecFilter == InitFilter /\ [][NextFilter]_vars

\* one call of NewsAgent.get_indian_financial_news
InitNews ==
    /\ pc = "news_query"
    /\ NewsIdle
    /\ FilterIdle
    /\ VsIdle
    /\ SaIdle
    /\ DbIdle
    /\ CycleIdle
    /\ MainIdle

NextNews == NewsQuery(RawHits, 1..Len(broad_queries)) \/ NewsFinish

SpecNews == InitNews /\ [][NextNews]_vars

\* a sentiment agent over a vector store that is set up, or not, at construction
InitSentiment ==
    /\ pc = "vs_init"
    /\ HAS_PINECONE \in BOOLEAN
    /\ api_key \in {<<>>, <<"k">>}
    /\ vs_index = FALSE
    /\ vs_embedding_model = FALSE
    /\ pinecone \in {{}, {PriorEntry}}
    /\ SaIdle
    /\ NewsIdle
    /\ FilterIdle
    /\ DbIdle
    /\ CycleIdle
    /\ MainIdle

NextSentiment ==
    \/ VsConstruct("vs_init", "sa_call")
    \/ SaCall(SaArticles)
    \/ AnalyzeArticle(ClassifierOutcomes(RawLabels, RawScores))

SpecSentiment == InitSentiment /\ [][NextSentiment]_vars

\* a sentiment agent over an enabled vector store that holds an entry, given
\* articles with long titles
InitLongText ==
    /\ pc = "vs_init"
    /\ HAS_PINECONE = TRUE
    /\ api_key = <<"k">>
    /\ vs_index = FALSE
    /\ vs_embedding_model = FALSE
    /\ pinecone = {PriorEntry}
    /\ SaIdle
    /\ NewsIdle
    /\ FilterIdle
    /\ DbIdle
    /\ CycleIdle
    /\ MainIdle

NextLongText ==
    \/ VsConstruct("vs_init", "sa_call")
    \/ SaCall(LongArticles)
    \/ AnalyzeArticle(ClassifierOutcomes(RawLabels, {90}))

SpecLongText == InitLongText /\ [][NextLongText]_vars

\* a SQLHandler over a new database file
InitCache ==
    /\ pc = "cache"
    /\ DbIdle
    /\ NewsIdle
    /\ FilterIdle
    /\ VsIdle
    /\ SaIdle
    /\ CycleIdle
    /\ MainIdle

NextCache == CacheAnalysis(CacheResults)

SpecCache == InitCache /\ [][NextCache]_vars

\* main() of a deployment without a Pinecone key (the default of settings.py)
Init ==
    /\ pc = "main"
    /\ news_api_key \in {<<>>, <<"k">>}
    /\ report = <<>>
    /\ main_message = "none"
    /\ HAS_PINECONE = TRUE
    /\ api_key = <<>>
    /\ vs_index = FALSE
    /\ vs_embedding_model = FALSE
    /\ pinecone = {}
    /\ FilterIdle
    /\ NewsIdle
    /\ SaIdle
    /\ DbIdle
    /\ CycleIdle

Next ==
    \/ MainStart
    \/ VsConstruct("test_init", "quick_test")
    \/ OrchestratorFails("test_init")
    \/ QuickTest(MainOutcomes)
    \/ VsConstruct("sched_init", "cycle_start")
    \/ OrchestratorFails("sched_init")
    \/ CycleStart
    \/ NewsQuery(MainHits, MainFailing)
    \/ NewsFinish
    \/ CycleAfterFetch
    \/ AnalyzeArticle(MainOutcomes)
    \/ CycleAfterAnalyze
    \/ CycleCache
    \/ CycleNotify
    \/ CycleReturn
    \/ RunAnalysisJob
    \/ DailyReport
    \/ ReportReturn

Spec == Init /\ [][Next]_vars

\* the same program when a step of the analysis cycle may raise
NextFault == Next \/ CycleRaises

SpecFault == Init /\ [][NextFault]_vars

----------------------------------------------------------------------------
(* Claims *)

ResultsOf(rs) == {rs[k] : k \in 1..Len(rs)}

\* C1: every result of analyze_single_article has a score whose sign matches its
\* label: positive label, score > 0; negative label, score < 0; neutral label,
\* score = 0; for any classifier output, a confidence of 0 or a missing score included.
C1_ScoreSignMatchesLabel ==
    \A r \in ResultsOf(results) :
        /\ r.sentiment_label = "positive" => r.sentiment_score > 0
        /\ r.sentiment_label = "negative" => r.sentiment_score < 0
        /\ r.sentiment_label = "neutral" => r.sentiment_score = 0

\* the url values present in raw hits
UrlsOf(hits) ==
    {hits[k].url : k \in {j \in 1..Len(hits) : "url" \in DOMAIN hits[j] /\ Truthy(hits[j].url)}}

\* C2: the articles get_indian_financial_news returns have pairwise distinct URLs,
\* so their number is at most the number of distinct URLs among the raw hits.
C2_DistinctUrls ==
    /\ \A i, j \in 1..Len(news_articles) :
          i # j => news_articles[i].url # news_articles[j].url
    /\ Len(news_articles) <= Cardinality(UrlsOf(all_articles))

C2_Witness ==
    /\ pc = "news_return"
    /\ Len(all_articles) = 2
    /\ Truthy(Get(all_articles[1], "url", None))
    /\ Get(all_articles[1], "url", None) = Get(all_articles[2], "url", None)
    /\ Len(news_articles) = 1

\* the four strong market keywords the filter rule names
StrongMarketKeywords ==
    {<<"s","e","n","s","e","x">>, <<"n","i","f","t","y">>, <<"b","s","e">>, <<"n","s","e">>}

\* the lower-cased title+description text of an article
TextOf(article) ==
    Lower(article.title \o <<" ">> \o (IF article.description \in {None, <<>>}
                                       THEN <<>> ELSE article.description))

HasStrongKeyword(article) == \E kw \in StrongMarketKeywords : Contains(TextOf(article), kw)

HasFinancialKeyword(article) ==
    \E k \in 1..Len(financial_indicators) : Contains(TextOf(article), financial_indicators[k])

HasIndianKeyword(article) ==
    \E k \in 1..Len(indian_indicators) : Contains(TextOf(article), indian_indicators[k])

\* C3: _is_financially_relevant keeps an article exactly when its text has a
\* financial keyword and an Indian-context keyword, or contains one of sensex,
\* nifty, bse, nse; an article with sensex and no Indian-context keyword is kept.
C3_TwoTierFilter ==
    pc = "filter_done" =>
        /\ verdict = "kept" <=>
              \/ HasFinancialKeyword(probe) /\ HasIndianKeyword(probe)
              \/ HasStrongKeyword(probe)
        /\ Contains(TextOf(probe), <<"s","e","n","s","e","x">>) /\ ~HasIndianKeyword(probe)
              => verdict = "kept"

C3_Witness ==
    /\ pc = "filter_done"
    /\ probe.title = <<"S","e","n","s","e","x">>
    /\ probe.description = None
    /\ verdict = "kept"

\* C4 as stated: no returned article has a financial keyword and no Indian-context
\* keyword.
C4_FinancialOnlyRejected ==
    \A k \in 1..Len(news_articles) :
        ~(HasFinancialKeyword(news_articles[k]) /\ ~HasIndianKeyword(news_articles[k]))

\* the hits of the current fetch that survive deduplication and build an article
ConvertedHits ==
    LET unique == UniqueByUrl(all_articles, {})
    IN  {ArticleOfHit(unique[k]) :
            k \in {j \in 1..Len(unique) : _is_valid_article(unique[j]) /\ ~HitRaises(unique[j])}}

\* C4, amended: an article with a financial keyword, no Indian-context keyword and
\* none of sensex, nifty, bse, nse is rejected and never returned by
\* get_indian_financial_news.
C4_FinancialOnlyWithoutStrongRejected ==
    \A k \in 1..Len(news_articles) :
        ~(/\ HasFinancialKeyword(news_articles[k])
          /\ ~HasIndianKeyword(news_articles[k])
          /\ ~HasStrongKeyword(news_articles[k]))

C4_Witness ==
    /\ pc = "news_return"
    /\ \E a \in ConvertedHits :
          /\ HasFinancialKeyword(a) /\ ~HasIndianKeyword(a) /\ ~HasStrongKeyword(a)
          /\ \A k \in 1..Len(news_articles) : news_articles[k] # a
    /\ news_articles # <<>>

\* C5: while the vector store is disabled (index or embedding model unset after
\* construction), get_similar_context returns the empty string, store_article
\* returns False and stores nothing, and every result has context_used = FALSE.
C5_DisabledStoreIsInert ==
    /\ [](pc # "vs_init" /\ ~(vs_index /\ vs_embedding_model) =>
            /\ context = <<>>
            /\ stored # "True"
            /\ \A r \in ResultsOf(results) : ~r.context_used)
    /\ [][~(vs_index /\ vs_embedding_model) => pinecone' = pinecone]_vars

C5_Witness ==
    /\ HAS_PINECONE /\ api_key # <<>>
    /\ ~vs_index /\ ~vs_embedding_model
    /\ pinecone # {}
    /\ pc = "sa_return"
    /\ Len(results) = 2
    /\ stored = "False"

\* the hits of the queries that were answered, in order
RECURSIVE AnsweredHits(_)
AnsweredHits(log) ==
    IF log = <<>> THEN <<>>
    ELSE (IF log[1].ok THEN log[1].hits ELSE <<>>) \o AnsweredHits(Tail(log))

\* C7: a failed query is skipped and contributes no hits, the other queries are
\* still issued and their hits merged, deduplicated and filtered; when every query
\* fails the returned list is empty; no exception leaves get_indian_financial_news.
C7_FailedQueriesSkipped ==
    /\ all_articles = AnsweredHits(apiLog)
    /\ pc \in {"news_query", "news_merge", "news_return"}
    /\ pc = "news_return" =>
          /\ Len(apiLog) = Len(broad_queries)
          /\ news_articles = RelevantArticles(UniqueByUrl(AnsweredHits(apiLog), {}))
          /\ (\A k \in 1..Len(apiLog) : ~apiLog[k].ok) => news_articles = <<>>

C7_Witness ==
    /\ pc = "news_return"
    /\ \E i, j, k \in 1..Len(apiLog) :
          /\ i < j /\ j < k
          /\ apiLog[i].ok /\ apiLog[i].hits # <<>>
          /\ ~apiLog[j].ok
          /\ apiLog[k].ok /\ apiLog[k].hits # <<>>
    /\ Len(news_articles) = 2

\* the articles of b whose analysis, as logged, raised nothing
RECURSIVE AnalysedArticles(_, _)
AnalysedArticles(b, log) ==
    IF b = <<>> \/ log = <<>> THEN <<>>
    ELSE (IF log[1] = "none" THEN <<b[1]>> ELSE <<>>) \o AnalysedArticles(Tail(b), Tail(log))

\* C8: analyze_articles never aborts a batch: an article whose analysis raises
\* (no text, classifier error, validation error) is skipped, every other article is
\* analysed, and the returned list holds one result per analysed article, in order.
C8_BatchNeverAborts ==
    /\ [k \in 1..Len(results) |-> results[k].article] = AnalysedArticles(batch, sa_log)
    /\ pc = "sa_return" => Len(sa_log) = Len(batch)

C8_Witness ==
    /\ pc = "sa_return"
    /\ Len(batch) = 2
    /\ sa_log[1] # "none"
    /\ sa_log[2] = "none"
    /\ Len(results) = 1

TitlesOf(table) == {table[k].title : k \in 1..Len(table)}

\* C6: the cache table holds at most one row per title, and caching a result whose
\* title is already cached replaces the row's url, content, source, sentiment,
\* label, confidence and context_used and leaves the number of rows unchanged.
C6_UpsertByTitle ==
    /\ [](\A i, j \in 1..Len(news_cache) :
              i # j => news_cache[i].title # news_cache[j].title)
    /\ [][\A c \in ResultsOf(db_call') :
              c.returned /\ c.result.article.title \in TitlesOf(news_cache) =>
                  /\ Len(news_cache') = Len(news_cache)
                  /\ \E k \in 1..Len(news_cache') :
                        /\ news_cache'[k].title = c.result.article.title
                        /\ news_cache'[k].url = c.result.article.url
                        /\ news_cache'[k].content = c.result.article.description
                        /\ news_cache'[k].source = c.result.article.source
                        /\ news_cache'[k].sentiment = c.result.sentiment_score
                        /\ news_cache'[k].sentiment_label = c.result.sentiment_label
                        /\ news_cache'[k].confidence = c.result.confidence
                        /\ news_cache'[k].context_used = c.result.context_used]_vars

\* a cached title was cached again, from another url and with another analysis
C6_Witness ==
    /\ Len(news_cache) = 2
    /\ \E c \in ResultsOf(db_call), k \in 1..Len(news_cache) :
          /\ c.returned
          /\ c.result.article = ArtSensexMirror
          /\ c.result.sentiment_label = "negative"
          /\ news_cache[k].title = ArtSensex.title
          /\ news_cache[k].url = ArtSensexMirror.url
          /\ news_cache[k].sentiment = -90

\* positions of main's scheduler part: inside a cycle, between jobs, inside a report
SchedulerPcs ==
    {"cycle_start", "news_query", "news_merge", "news_return", "sa_article", "sa_return",
     "cycle_cache", "cycle_notify", "cycle_end", "loop", "report_done"}

\* C9: a cycle in which a step raised returns (to the scheduler loop) instead of
\* ending the program: once the scheduler part of main is entered the program
\* never leaves it, raised step or not, a returned cycle hands control back to the
\* poll loop, and in the poll loop both jobs can still run
C9_CycleErrorIsCaught ==
    /\ [](cycle_return = "error" => pc \in SchedulerPcs)
    /\ [][(pc \in SchedulerPcs) => (pc' \in SchedulerPcs)]_vars
    /\ [][pc = "cycle_end" => pc' = "loop"]_vars
    /\ [](pc = "loop" => ENABLED RunAnalysisJob /\ ENABLED DailyReport)

\* a cycle has ended in the except clause and a later cycle is sending an alert
C9_Witness ==
    /\ cycle_return = "error"
    /\ pc = "cycle_notify"
    /\ alerts # <<>>

\* label is positive or negative and confidence is strictly above the threshold
Qualifies(result) ==
    /\ result.sentiment_label # "neutral"
    /\ result.confidence > high_confidence_threshold

\* C10: the alerts of a cycle are exactly the results handled so far whose label
\* is positive or negative and whose confidence is strictly above
\* high_confidence_threshold, in the order of the results
C10_AlertIffConfidentNonNeutral ==
    /\ alerts = SelectSeq(SubSeq(results, 1, ni - 1), Qualifies)
    /\ notification_count = Len(alerts)
    /\ pc = "cycle_end" /\ cycle_return = "results" => ni = Len(results) + 1

\* a cycle has returned two results: one positive at exactly the threshold without
\* an alert, one negative above it with an alert
C10_Witness ==
    /\ pc = "cycle_end"
    /\ cycle_return = "results"
    /\ Len(results) = 2
    /\ results[1].sentiment_label = "positive"
    /\ results[1].confidence = high_confidence_threshold
    /\ results[2].sentiment_label = "negative"
    /\ alerts = <<results[2]>>

\* C11: every result analyze_single_article returns has a sentiment_score within
\* [-1, 1] and a confidence within [0, 1]
C11_ScoreAndConfidenceInRange ==
    \A r \in ResultsOf(results) :
        /\ -100 <= r.sentiment_score /\ r.sentiment_score <= 100
        /\ 0 <= r.confidence /\ r.confidence <= 100

\* C12: without the news API key main only prints the missing-key message and
\* returns: it is never past the configuration check, and no orchestrator
\* component, fetch, analysis, cache write, alert or report has happened
C12_MissingKeyAbortsStartup ==
    news_api_key = <<>> =>
        /\ pc \in {"main", "exit"}
        /\ pc = "exit" => main_message = "Missing NEWS_API_KEY"
        /\ ~vs_index /\ ~vs_embedding_model /\ pinecone = {}
        /\ NewsIdle
        /\ SaIdle
        /\ DbIdle
        /\ CycleIdle
        /\ report = <<>>

\* main has returned after printing the missing-key message
C12_Witness ==
    /\ news_api_key = <<>>
    /\ pc = "exit"
    /\ main_message = "Missing NEWS_API_KEY"

\* the number of writes that returned True
Succeeded(returns) == Cardinality({k \in 1..Len(returns) : returns[k]})

\* C13: in a cycle a cache write that fails returns False and leaves the table
\* as it was, the loop goes on to the next result and then to the notification
\* loop, every result of a returned cycle had its write attempted and its
\* alert condition evaluated, and cached_count is the number of writes that
\* returned True
C13_CacheWritesIndependent ==
    /\ [](cached_count = Succeeded(cache_returns))
    /\ [](pc = "cycle_notify" => Len(cache_returns) = Len(results))
    /\ [](pc = "cycle_end" /\ cycle_return = "results" =>
              Len(cache_returns) = Len(results) /\ ni = Len(results) + 1)
    /\ [][Len(cache_returns') = Len(cache_returns) + 1 =>
              /\ pc' = IF Len(cache_returns') = Len(results) THEN "cycle_notify"
                       ELSE "cycle_cache"
              /\ ~cache_returns'[Len(cache_returns')] => news_cache' = news_cache]_vars

\* a cycle has returned two results: the write of the first failed, the write of
\* the second succeeded and an alert was sent
C13_Witness ==
    /\ pc = "cycle_end"
    /\ cycle_return = "results"
    /\ cache_returns = <<FALSE, TRUE>>
    /\ cached_count = 1
    /\ Len(news_cache) = 1
    /\ alerts # <<>>

\* C14: whenever the similarity lookup returned a context, the text handed to
\* the classifier contains that context in full
C14_ContextSurvivesTruncation ==
    context # <<>> /\ model_input # <<>> => Contains(model_input, context)

\* C15: every article get_indian_financial_news returns has a non-empty title
\* and a non-empty url
C15_TitleAndUrlPresent ==
    \A k \in 1..Len(news_articles) :
        /\ Truthy(news_articles[k].title)
        /\ Truthy(news_articles[k].url)

SentimentLabels == {"positive", "negative", "neutral"}

\* the labels a context string names
LabelsNamed(ctx) ==
    {l \in SentimentLabels : Contains(ctx, SimilarNewsWas \o LabelText(l))}

\* the labels of the entries of the index
LabelsStored(entries) == {e.metadata.sentiment_label : e \in entries}

\* C16: the lookup of an article sees the index as it was before the article's
\* own result is stored (its context names only labels stored by then, and
\* context_used tells whether there was one), and the result of an article
\* whose classification succeeded is in the index when analyze_single_article
\* returns, that is, before the lookup of the next article; nothing else changes
\* the index
C16_LookupThenStorePerArticle ==
    /\ [][Len(sa_log') = Len(sa_log) + 1 => LabelsNamed(context') \subseteq LabelsStored(pinecone)]_vars
    /\ [][Len(results') = Len(results) + 1 =>
              results'[Len(results')].context_used = (context' # <<>>)]_vars
    /\ [][pinecone' =
              IF Len(results') = Len(results) + 1 /\ stored' = "True"
              THEN Upsert(pinecone, VectorEntry(results'[Len(results')]))
              ELSE pinecone]_vars

\* a batch of two over an index without positive entries: the first article got
\* no context and a positive result, and the lookup of the second article
\* returned that result as its context
C16_Witness ==
    /\ Len(batch) = 2
    /\ Len(results) = 2
    /\ results[1].sentiment_label = "positive"
    /\ ~results[1].context_used
    /\ results[2].context_used
    /\ context = SimilarNewsWas \o LabelText("positive")
    /\ stored = "True"

\* C17: after a cycle that returned its results and in which every cache write
\* returned True, the table holds for every result a row with the result's title,
\* url, score and label
C17_NoResultLostFromCache ==
    /\ pc = "cycle_end"
    /\ cycle_return = "results"
    /\ \A k \in 1..Len(cache_returns) : cache_returns[k]
    => \A k \in 1..Len(results) :
           \E n \in 1..Len(news_cache) :
               /\ news_cache[n].title = results[k].article.title
               /\ news_cache[n].url = results[k].article.url
               /\ news_cache[n].sentiment = results[k].sentiment_score
               /\ news_cache[n].sentiment_label = results[k].sentiment_label

====
